---- MODULE Spec2Model ----
(***************************************************************************)
(* Model of the commandee-api item routes (src/routes/item.ts) and of the  *)
(* server set-up they run in (authenticate decoration, OpenAPI document    *)
(* endpoints, production start-up).                                        *)
(***************************************************************************)
EXTENDS Integers, Sequences, FiniteSets, Bags, TLC

VARIABLES
    items,      \* the item store behind itemControl: public id -> item row
    nextId,     \* number of the next public id itemControl.create hands out
    inflight,   \* bag of the handlers suspended at an await, one per connection
    last,       \* the request that completed most recently, with its reply
    hist,       \* history: public id -> who created it, with what, deleted?
    env,        \* import.meta.env: "PROD" or "DEV"
    boot,       \* position of the server module's top-level code
    files,      \* public/openapi.json and .yaml: absent, queued (writeFile
                \* started), partial (opened, being written) or complete
    cache,      \* module variables openAPIJson, openAPIYaml
    docLast     \* the document request that completed most recently

vars == <<items, nextId, inflight, last, hist, env, boot, files, cache, docLast>>
itemVars == <<items, nextId, inflight, last, hist>>
docVars == <<env, boot, files, cache, docLast>>

-----------------------------------------------------------------------------
(* Bounds of the model *)
NumRestaurants == 2
MaxItems == 2
NumConnections == 2
MaxAccept == 2

(* Program constants *)
IdLen == 16
MinNameLen == 3
MaxNameLen == 255
MaxDescLen == 255
MinPrice == 0

-----------------------------------------------------------------------------
(* Values *)
None == "none"
NoUser == 0
NoRestaurant == 0
NoDesc == "undefined"
TypeErr == -1

Restaurants == 1..NumRestaurants
\* one user per restaurant, and one user without a restaurant
Users == 1..(NumRestaurants + 1)

\* userControl.get(user.id).restaurant: null for the user without one
UserRestaurant(u) == IF u \in Restaurants THEN u ELSE NoRestaurant

\* 16-character public ids, in the order itemControl.create hands them out
PublicId(n) == "item-0000000000" \o ToString(n)
ItemIds == {PublicId(n) : n \in 1..MaxItems}
ParamIds == ItemIds \cup {"abc"}

Bodies ==
    { [name |-> "Soup", price |-> 500, description |-> NoDesc, extra |-> FALSE],
      [name |-> "Taco", price |-> 0, description |-> "hot", extra |-> FALSE],
      [name |-> "ab", price |-> 500, description |-> NoDesc, extra |-> FALSE],
      [name |-> "Soup", price |-> 500, description |-> NoDesc, extra |-> TRUE] }

Creds ==
    [token : {"valid"}, uid : Users]
        \cup [token : {"expired", "malformed", "missing"}, uid : {NoUser}]

ExpiredCode == "FST_JWT_AUTHORIZATION_TOKEN_EXPIRED"
Confirmation == "Item deleted successfully"
AccessDenied == "You don't have access to this item"

NoRequest == [ep |-> None]

-----------------------------------------------------------------------------
(* Route schemas, applied by the framework before the handler runs *)

\* params schema of GET /:id and DELETE /:id: id is a string of 16 characters
ValidParams(id) == Len(id) >= IdLen /\ Len(id) <= IdLen

\* body schema of POST /: name, price, optional description, nothing else
ValidBody(b) ==
    /\ Len(b.name) >= MinNameLen /\ Len(b.name) <= MaxNameLen
    /\ b.price >= MinPrice
    /\ (b.description = NoDesc \/ Len(b.description) <= MaxDescLen)
    /\ ~b.extra

\* response schema 200 of GET / and GET /:id: id, name, price, description
ItemView(row) ==
    [id |-> row.id, name |-> row.name, price |-> row.price,
     description |-> row.description]

-----------------------------------------------------------------------------
(* The reply of one request.  ctx is what a handler has done so far:       *)
(*   user   request.user (NoUser until the token is verified)              *)
(*   sent   the responses put on the wire (the framework sends one at most)*)
(*   sends  who called reply.send, in order: "validation", "gate",         *)
(*          "handler", "error"                                             *)
(*   calls  the persistence operations invoked, in order                   *)
(*   thrown the error the handler ended with, or NoError                   *)

NoError == [status |-> 0, message |-> None]
APIError(message, status) == [status |-> status, message |-> message]
TypeError == [status |-> 500, message |-> "TypeError"]
NotFound == [status |-> 404, message |-> "NotFound"]
NoRestaurantError == APIError("User has no restaurant", 403)

NewCtx ==
    [user |-> NoUser, sent |-> <<>>, sends |-> <<>>, calls |-> <<>>,
     thrown |-> NoError]

\* reply.code(status).send(payload): a reply already sent is not sent again
Send(ctx, status, payload, by) ==
    [ctx EXCEPT
        !.sent = IF @ = <<>> THEN <<[status |-> status, payload |-> payload]>>
                 ELSE @,
        !.sends = Append(@, by)]

Throw(ctx, err) == [ctx EXCEPT !.thrown = err]
Call(ctx, op) == [ctx EXCEPT !.calls = Append(@, op)]
Text(t) == [kind |-> "text", text |-> t]
Range(q) == {q[k] : k \in 1..Len(q)}

\* the framework's handling of a rejected handler: the error is sent as the
\* reply, with the status it carries, unless a reply has been sent already
HandlerEnd(ctx) ==
    IF ctx.thrown = NoError \/ ctx.sent # <<>> THEN ctx
    ELSE Send(ctx, ctx.thrown.status, Text(ctx.thrown.message), "error")

-----------------------------------------------------------------------------
(* Auth gate *)

\* request.jwtVerify(): "OK", or the code of the error it throws
jwtVerify(cred) ==
    CASE cred.token = "valid" -> "OK"
      [] cred.token = "expired" -> ExpiredCode
      [] cred.token = "malformed" -> "FST_JWT_AUTHORIZATION_TOKEN_INVALID"
      [] OTHER -> "FST_JWT_NO_AUTHORIZATION_IN_COOKIE"

\* mutant: the expired token is not told apart from the other failures
authenticateAll401(cred, ctx) ==
    LET code == jwtVerify(cred) IN
    IF code = "OK" THEN [ctx EXCEPT !.user = cred.uid]
    ELSE Send(ctx, 401, Text(code), "gate")

authenticate(cred, ctx) ==
    LET code == jwtVerify(cred) IN
    IF code = "OK" THEN [ctx EXCEPT !.user = cred.uid]
    ELSE IF code = ExpiredCode THEN Send(ctx, 403, Text(code), "gate")
    ELSE Send(ctx, 401, Text(code), "gate")

\* the base gate, then the requirement that request.user.restaurant is set
authenticateWithRestaurant(cred, ctx) ==
    LET a == authenticate(cred, ctx) IN
    IF a.user = NoUser \/ UserRestaurant(a.user) = NoRestaurant
    THEN Throw(a, NoRestaurantError)
    ELSE a

\* mutant: the handler calls the base gate, fastify.authenticate
AwaitBaseGate(cred) == authenticate(cred, NewCtx)

\* mutant: the handler goes on after a gate that failed
AwaitGateIgnored(cred) ==
    [authenticateWithRestaurant(cred, NewCtx) EXCEPT !.thrown = NoError]

\* await fastify.authenticateWithRestaurant(request, reply)
AwaitGate(cred) == authenticateWithRestaurant(cred, NewCtx)

\* request.user.restaurant!.id
RestaurantId(user) ==
    IF user = NoUser \/ UserRestaurant(user) = NoRestaurant THEN TypeErr
    ELSE UserRestaurant(user)

-----------------------------------------------------------------------------
(* Persistence collaborators *)

\* itemControl.getAllFrom(restaurantId)
getAllFrom(rid) == {items[i] : i \in {j \in DOMAIN items : items[j].restaurantId = rid}}

\* itemControl.create(fields): the row it stores under the new public id
NewRow(id, fields) ==
    [id |-> id, name |-> fields.name, price |-> fields.price,
     description |-> fields.description, restaurantId |-> fields.restaurantId]

\* statsControl.mostSold / leastSold (restaurantId)
Stats(which, rid) == [kind |-> "stats", which |-> which, restaurantId |-> rid]

-----------------------------------------------------------------------------
(* Item handlers.  Each operator is the handler (or the part of it between *)
(* two awaits on the store) as a function of the store it reads.           *)

Invalid == Send(NewCtx, 400, Text("validation"), "validation")

\* mutant: the menu is not restricted to the caller's restaurant
ListHandlerUnfiltered(cred) ==
    LET g == AwaitGate(cred)
        rid == RestaurantId(g.user)
    IN  IF g.thrown # NoError THEN g
        ELSE IF rid = TypeErr THEN Throw(g, TypeError)
        ELSE Send(Call(g, "getAllFrom"), 200,
                  [kind |-> "menu", items |-> {ItemView(items[i]) : i \in DOMAIN items}],
                  "handler")

\* GET /
ListHandler(cred) ==
    LET g == AwaitGate(cred)
        rid == RestaurantId(g.user)
    IN  IF g.thrown # NoError THEN g
        ELSE IF rid = TypeErr THEN Throw(g, TypeError)
        ELSE Send(Call(g, "getAllFrom"), 200,
                  [kind |-> "menu", items |-> {ItemView(r) : r \in getAllFrom(rid)}],
                  "handler")

\* mutant: the comparison of the ownership check is inverted
CheckOwnerInverted(c, row) ==
    LET rid == RestaurantId(c.user) IN
    IF rid = TypeErr THEN Throw(c, TypeError)
    ELSE IF row.restaurantId = rid THEN Throw(c, APIError(AccessDenied, 403))
    ELSE c

\* mutant: the ownership check is left out
CheckOwnerSkipped(c, row) ==
    IF RestaurantId(c.user) = TypeErr THEN Throw(c, TypeError) ELSE c

\* the ownership check of GET /:id and DELETE /:id on the row get returned
CheckOwner(c, row) ==
    LET rid == RestaurantId(c.user) IN
    IF rid = TypeErr THEN Throw(c, TypeError)
    ELSE IF row.restaurantId # rid THEN Throw(c, APIError(AccessDenied, 403))
    ELSE c

\* await itemControl.get(itemId), then the ownership check
Lookup(g, id) ==
    LET c == Call(g, "get") IN
    IF id \notin DOMAIN items THEN Throw(c, NotFound)
    ELSE CheckOwner(c, items[id])

\* GET /:id
GetHandler(cred, id) ==
    LET g == AwaitGate(cred)
        c == Lookup(g, id)
    IN  IF g.thrown # NoError THEN g
        ELSE IF c.thrown # NoError THEN c
        ELSE Send(c, 200, [kind |-> "item", item |-> ItemView(items[id])], "handler")

\* mutant: DELETE /:id does not look the item up before deleting it
DeleteLookupNoGet(cred, id) == AwaitGate(cred)

\* DELETE /:id up to the await on itemControl.del
DeleteLookup(cred, id) ==
    LET g == AwaitGate(cred) IN
    IF g.thrown # NoError THEN g ELSE Lookup(g, id)

\* DELETE /:id from itemControl.del on; delOk: del did not throw
DeleteFinish(c, delOk) ==
    IF delOk THEN Send(Call(c, "del"), 200, Text(Confirmation), "handler")
    ELSE Throw(Call(c, "del"), NotFound)

\* mutant: the description is not handed to itemControl.create
CreateFieldsNoDescription(user, body) ==
    [name |-> body.name, price |-> body.price, description |-> NoDesc,
     restaurantId |-> RestaurantId(user)]

\* POST /: the fields handed to itemControl.create
CreateFields(user, body) ==
    [name |-> body.name, price |-> body.price, description |-> body.description,
     restaurantId |-> RestaurantId(user)]

\* POST / up to the await on itemControl.create
PostStart(cred, body) ==
    LET g == AwaitGate(cred) IN
    IF g.thrown # NoError THEN g
    ELSE IF CreateFields(g.user, body).restaurantId = TypeErr THEN Throw(g, TypeError)
    ELSE Call(g, "create")

\* POST / from the await on itemControl.get(itemId) on; no response schema
PostFinish(c, itemId) ==
    IF itemId \notin DOMAIN items THEN Throw(Call(c, "get"), NotFound)
    ELSE Send(Call(c, "get"), 200, [kind |-> "row", row |-> items[itemId]], "handler")

\* GET /best-seller, GET /worst-seller
StatsHandler(cred, which) ==
    LET g == AwaitGate(cred)
        rid == RestaurantId(g.user)
    IN  IF g.thrown # NoError THEN g
        ELSE IF rid = TypeErr THEN Throw(g, TypeError)
        ELSE Send(Call(g, which), 200, Stats(which, rid), "handler")

-----------------------------------------------------------------------------
(* History kept for the properties: what the callers did, as they saw it *)

CallerRestaurant(cred) ==
    IF cred.token = "valid" THEN UserRestaurant(cred.uid) ELSE NoRestaurant

GateOutcome(cred) ==
    IF authenticateWithRestaurant(cred, NewCtx).thrown = NoError THEN "passed"
    ELSE "failed"

\* the items created by callers of restaurant rid and not deleted since
LiveOf(rid) ==
    {[id |-> i, name |-> hist[i].body.name, price |-> hist[i].body.price,
      description |-> hist[i].body.description] :
        i \in {j \in DOMAIN hist : hist[j].by = rid /\ ~hist[j].deleted}}

Observed(id) ==
    [gate |-> "skipped", exists |-> id \in DOMAIN items,
     owner |-> IF id \in DOMAIN hist THEN hist[id].by ELSE NoRestaurant,
     deletedBefore |-> id \in DOMAIN hist /\ hist[id].deleted,
     live |-> {}]

Completed(ep, cred, id, body, ctx, obs) ==
    LET e == HandlerEnd(ctx) IN
    [ep |-> ep, cred |-> cred, id |-> id, body |-> body, sent |-> e.sent,
     sends |-> e.sends, calls |-> e.calls, obs |-> obs]

-----------------------------------------------------------------------------
(* Item requests *)

ItemInit ==
    /\ items = [i \in {} |-> None]
    /\ nextId = 1
    /\ inflight = EmptyBag
    /\ last = NoRequest
    /\ hist = [i \in {} |-> None]

\* the history entry of an id whose row has been deleted
Gone(by) == [by |-> by, body |-> None, deleted |-> TRUE]

Obs(cred, id) == [Observed(id) EXCEPT !.gate = GateOutcome(cred)]

\* GET /
GetMenu ==
    /\ last = NoRequest
    /\ \E cred \in Creds :
        last' = Completed("GET /", cred, None, None, ListHandler(cred),
                    [Obs(cred, None) EXCEPT !.live = LiveOf(CallerRestaurant(cred))])
    /\ UNCHANGED <<items, nextId, inflight, hist>>
    /\ UNCHANGED docVars

\* GET /:id
GetItem ==
    /\ last = NoRequest
    /\ \E cred \in Creds, id \in ParamIds :
        last' = IF ValidParams(id)
                THEN Completed("GET /:id", cred, id, None, GetHandler(cred, id),
                               Obs(cred, id))
                ELSE Completed("GET /:id", cred, id, None, Invalid, Observed(id))
    /\ UNCHANGED <<items, nextId, inflight, hist>>
    /\ UNCHANGED docVars

\* POST /: validation, gate and itemControl.create
CreateItem ==
    /\ last = NoRequest
    /\ BagCardinality(inflight) < NumConnections
    /\ \E cred \in Creds, body \in Bodies :
        LET c == PostStart(cred, body)
            id == PublicId(nextId)
        IN  IF ~ValidBody(body)
            THEN /\ last' = Completed("POST /", cred, None, body, Invalid,
                                      Observed(None))
                 /\ UNCHANGED <<items, nextId, inflight, hist>>
            ELSE IF c.thrown # NoError
            THEN /\ last' = Completed("POST /", cred, None, body, c, Obs(cred, None))
                 /\ UNCHANGED <<items, nextId, inflight, hist>>
            ELSE /\ nextId <= MaxItems
                 /\ items' = items @@ (id :> NewRow(id, CreateFields(c.user, body)))
                 /\ nextId' = nextId + 1
                 /\ hist' = hist @@ (id :> [by |-> CallerRestaurant(cred),
                                            body |-> body, deleted |-> FALSE])
                 /\ inflight' = inflight (+) SetToBag({
                        [pc |-> "fetch", cred |-> cred, body |-> body, id |-> id,
                         ctx |-> c, obs |-> Obs(cred, None)]})
                 /\ UNCHANGED last
    /\ UNCHANGED docVars

\* POST /: itemControl.get of the new id, and the reply
CreateFetch(r) ==
    /\ last = NoRequest
    /\ r.pc = "fetch"
    /\ last' = Completed("POST /", r.cred, r.id, r.body, PostFinish(r.ctx, r.id),
                    [r.obs EXCEPT !.exists = r.id \in DOMAIN items,
                                  !.deletedBefore = hist[r.id].deleted])
    /\ inflight' = inflight (-) SetToBag({r})
    /\ UNCHANGED <<items, nextId, hist>>
    /\ UNCHANGED docVars

\* DELETE /:id: validation, gate, itemControl.get and the ownership check
DeleteItem ==
    /\ last = NoRequest
    /\ BagCardinality(inflight) < NumConnections
    /\ \E cred \in Creds, id \in ParamIds :
        LET c == DeleteLookup(cred, id) IN
        IF ~ValidParams(id)
        THEN /\ last' = Completed("DELETE /:id", cred, id, None, Invalid, Observed(id))
             /\ UNCHANGED inflight
        ELSE IF c.thrown # NoError
        THEN /\ last' = Completed("DELETE /:id", cred, id, None, c, Obs(cred, id))
             /\ UNCHANGED inflight
        ELSE /\ inflight' = inflight (+) SetToBag({
                    [pc |-> "del", cred |-> cred, id |-> id, ctx |-> c,
                     obs |-> Obs(cred, id)]})
             /\ UNCHANGED last
    /\ UNCHANGED <<items, nextId, hist>>
    /\ UNCHANGED docVars

\* DELETE /:id: itemControl.del and the reply; deleting a row that is gone
\* either does nothing or throws
DeleteDel(r) ==
    /\ last = NoRequest
    /\ r.pc = "del"
    /\ \E delOk \in (IF r.id \in DOMAIN items THEN {TRUE} ELSE BOOLEAN) :
            last' = Completed("DELETE /:id", r.cred, r.id, None,
                              DeleteFinish(r.ctx, delOk), r.obs)
    /\ items' = [i \in DOMAIN items \ {r.id} |-> items[i]]
    /\ hist' = [i \in DOMAIN hist |-> IF i = r.id THEN Gone(hist[i].by) ELSE hist[i]]
    /\ inflight' = inflight (-) SetToBag({r})
    /\ UNCHANGED nextId
    /\ UNCHANGED docVars

Seller(ep, which) ==
    /\ last = NoRequest
    /\ \E cred \in Creds :
        last' = Completed(ep, cred, None, None, StatsHandler(cred, which),
                          Obs(cred, None))
    /\ UNCHANGED <<items, nextId, inflight, hist>>
    /\ UNCHANGED docVars

\* GET /best-seller
BestSeller == Seller("GET /best-seller", "mostSold")

\* GET /worst-seller
WorstSeller == Seller("GET /worst-seller", "leastSold")

\* the reply of the completed request reaches its client
Deliver ==
    /\ last # NoRequest
    /\ last' = NoRequest
    /\ UNCHANGED <<items, nextId, inflight, hist>>
    /\ UNCHANGED docVars

Serving ==
    /\ env = "PROD"
    /\ boot = "listening"
    /\ files = [json |-> "complete", yaml |-> "complete"]
    /\ cache = [json |-> None, yaml |-> None]
    /\ docLast = NoRequest

Init == ItemInit /\ Serving

Next ==
    \/ GetMenu
    \/ GetItem
    \/ CreateItem
    \/ \E r \in BagToSet(inflight) : CreateFetch(r)
    \/ DeleteItem
    \/ \E r \in BagToSet(inflight) : DeleteDel(r)
    \/ BestSeller
    \/ WorstSeller
    \/ Deliver

Spec == Init /\ [][Next]_vars

-----------------------------------------------------------------------------
(* Content negotiation of GET /openapi: request.type(types) *)

MT(t, st) == [type |-> t, subtype |-> st]
Name(m) == m.type \o "/" \o m.subtype

\* the list handed to request.type
Supported == <<MT("application", "json"), MT("application", "yaml"),
               MT("text", "yaml"), MT("text", "yml")>>

\* media ranges a client may name; q in tenths
Ranges == {Supported[i] : i \in 1..Len(Supported)}
              \cup {MT("text", "html"), MT("*", "*"), MT("text", "*")}
Qualities == {0, 5, 10}
AcceptEntries == [range : Ranges, q : Qualities]
\* the Accept header; <<>> is a request without one
Accepts == UNION {[1..n -> AcceptEntries] : n \in 0..MaxAccept}

NoSpec == [i |-> 0, o |-> -1, q |-> 0, s |-> -1]

\* negotiator's specify(type, spec, index): how well range o of the header
\* matches the offered type, NoSpec when it does not
specify(m, accept, o, i) ==
    LET r == accept[o].range
        okType == r.type = m.type \/ r.type = "*"
        okSub == r.subtype = m.subtype \/ r.subtype = "*"
    IN  IF okType /\ okSub
        THEN [i |-> i, o |-> o, q |-> accept[o].q,
              s |-> (IF r.type = m.type THEN 4 ELSE 0)
                        + (IF r.subtype = m.subtype THEN 2 ELSE 0)]
        ELSE NoSpec

\* (priority.s - spec.s || priority.q - spec.q || priority.o - spec.o) < 0
Better(spec, priority) ==
    \/ spec.s > priority.s
    \/ spec.s = priority.s /\ spec.q > priority.q
    \/ spec.s = priority.s /\ spec.q = priority.q /\ spec.o > priority.o

\* negotiator's getMediaTypePriority over the first n ranges of the header
RECURSIVE getMediaTypePriority(_, _, _, _)
getMediaTypePriority(m, accept, i, n) ==
    IF n = 0 THEN [i |-> i, o |-> -1, q |-> 0, s |-> 0]
    ELSE LET priority == getMediaTypePriority(m, accept, i, n - 1)
             spec == specify(m, accept, n, i)
         IN  IF spec # NoSpec /\ Better(spec, priority) THEN spec ELSE priority

\* negotiator's compareSpecs: a sorts before b
compareSpecs(a, b) ==
    \/ a.q > b.q
    \/ a.q = b.q /\ a.s > b.s
    \/ a.q = b.q /\ a.s = b.s /\ a.o < b.o
    \/ a.q = b.q /\ a.s = b.s /\ a.o = b.o /\ a.i < b.i

\* request.type(Supported): the preferred offered type, false when none is
\* acceptable, the first offered type when the request has no Accept header
RequestType(accept) ==
    LET prio == {getMediaTypePriority(Supported[i], accept, i, Len(accept)) :
                    i \in 1..Len(Supported)}
        ok == {p \in prio : p.q > 0}
        first == CHOOSE p \in ok : \A p2 \in ok \ {p} : compareSpecs(p, p2)
    IN  IF accept = <<>> THEN [kind |-> "string", values |-> <<Name(Supported[1])>>]
        ELSE IF ok = {} THEN [kind |-> "false", values |-> <<>>]
        ELSE [kind |-> "string", values |-> <<Name(Supported[first.i])>>]

\* request.type(...) || "application/json"
ValidType(accept) ==
    LET t == RequestType(accept) IN
    IF t.kind = "false" THEN [kind |-> "string", values |-> <<"application/json">>]
    ELSE t

\* Array.isArray(validType) ? validType[0] : validType
SelectType(validType) == validType.values[1]

-----------------------------------------------------------------------------
(* Document endpoints *)

\* the content type the static plugin derives from the file's extension
TypeOfFile(f) == IF f = "json" THEN "application/json" ELSE "text/yaml"

\* reply.sendFile("/public/openapi.<f>"): what is on disk at this moment
SendFile(f) ==
    IF files[f] \in {"absent", "queued"}
    THEN [status |-> 404, type |-> None, doc |-> f, content |-> "absent"]
    ELSE [status |-> 200, type |-> TypeOfFile(f), doc |-> f, content |-> files[f]]

\* reply.type(type).send(openAPIJson / openAPIYaml)
SendCached(type, f) ==
    [status |-> 200, type |-> type, doc |-> f, content |-> cache[f]]

\* GET /openapi/json
OpenapiJsonHandler ==
    IF env = "PROD" THEN SendFile("json") ELSE SendCached("application/json", "json")

\* GET /openapi/yaml
OpenapiYamlHandler ==
    IF env = "PROD" THEN SendFile("yaml") ELSE SendCached("text/yaml", "yaml")

\* mutant: only text/yaml selects the YAML document
OpenapiHandlerTextYamlOnly(accept) ==
    LET type == SelectType(ValidType(accept)) IN
    IF type # "text/yaml"
    THEN (IF env = "PROD" THEN SendFile("json")
          ELSE SendCached("application/json", "json"))
    ELSE (IF env = "PROD" THEN SendFile("yaml")
          ELSE SendCached("text/yaml", "yaml"))

\* GET /openapi
OpenapiHandler(accept) ==
    LET type == SelectType(ValidType(accept)) IN
    IF type = "application/json"
    THEN (IF env = "PROD" THEN SendFile("json")
          ELSE SendCached("application/json", "json"))
    ELSE (IF env = "PROD" THEN SendFile("yaml")
          ELSE SendCached("text/yaml", "yaml"))

\* requests are served once the listener is up (production) or once the
\* module has been evaluated by its host (development)
Accepting == boot = "listening" \/ boot = "hosted"

DocDone(ep, accept, reply) ==
    [ep |-> ep, accept |-> accept, reply |-> reply, env |-> env,
     pinned |-> [json |-> OpenapiJsonHandler, yaml |-> OpenapiYamlHandler]]

Openapi ==
    /\ Accepting
    /\ docLast = NoRequest
    /\ \E accept \in Accepts :
        docLast' = DocDone("GET /openapi", accept, OpenapiHandler(accept))
    /\ UNCHANGED <<env, boot, files, cache>>
    /\ UNCHANGED itemVars

OpenapiJson ==
    /\ Accepting
    /\ docLast = NoRequest
    /\ docLast' = DocDone("GET /openapi/json", <<>>, OpenapiJsonHandler)
    /\ UNCHANGED <<env, boot, files, cache>>
    /\ UNCHANGED itemVars

OpenapiYaml ==
    /\ Accepting
    /\ docLast = NoRequest
    /\ docLast' = DocDone("GET /openapi/yaml", <<>>, OpenapiYamlHandler)
    /\ UNCHANGED <<env, boot, files, cache>>
    /\ UNCHANGED itemVars

\* GET /openapi.json and GET /openapi.yaml, registered in development only
DevAlias ==
    /\ Accepting
    /\ env = "DEV"
    /\ docLast = NoRequest
    /\ \E f \in {"json", "yaml"} :
        docLast' = DocDone("GET /openapi." \o f, <<>>, SendCached(TypeOfFile(f), f))
    /\ UNCHANGED <<env, boot, files, cache>>
    /\ UNCHANGED itemVars

\* the reply of the document request reaches its client
DeliverDoc ==
    /\ docLast # NoRequest
    /\ docLast' = NoRequest
    /\ UNCHANGED <<env, boot, files, cache>>
    /\ UNCHANGED itemVars

-----------------------------------------------------------------------------
(* Start-up: the module's top-level code after await fastify.ready() *)

DocInit ==
    /\ env \in {"PROD", "DEV"}
    /\ boot = "ready"
    /\ files = [json |-> "absent", yaml |-> "absent"]
    /\ cache = [json |-> None, yaml |-> None]
    /\ docLast = NoRequest

\* fs.writeFile(public/openapi.json, ...): started, not awaited
StartWriteJson ==
    /\ env = "PROD" /\ boot = "ready"
    /\ boot' = "jsonStarted"
    /\ files' = [files EXCEPT !.json = "queued"]
    /\ UNCHANGED <<env, cache, docLast>>
    /\ UNCHANGED itemVars

\* fs.writeFile(public/openapi.yaml, ...): started, not awaited
StartWriteYaml ==
    /\ boot = "jsonStarted"
    /\ boot' = "yamlStarted"
    /\ files' = [files EXCEPT !.yaml = "queued"]
    /\ UNCHANGED <<env, cache, docLast>>
    /\ UNCHANGED itemVars

\* await import("./enviroment")
ImportEnviroment ==
    /\ boot = "yamlStarted"
    /\ boot' = "imported"
    /\ UNCHANGED <<env, files, cache, docLast>>
    /\ UNCHANGED itemVars

\* fastify.listen({port, host}, callback)
Listen ==
    /\ boot = "imported"
    /\ boot' = "listening"
    /\ UNCHANGED <<env, files, cache, docLast>>
    /\ UNCHANGED itemVars

\* var openAPIJson = ...; var openAPIYaml = ...
CacheDocuments ==
    /\ env = "DEV" /\ boot = "ready"
    /\ boot' = "hosted"
    /\ cache' = [json |-> "complete", yaml |-> "complete"]
    /\ UNCHANGED <<env, files, docLast>>
    /\ UNCHANGED itemVars

\* the file system carries out a started writeFile: it opens (creates and
\* truncates) the file, then writes the document and closes it
WriteOpen(f) ==
    /\ files[f] = "queued"
    /\ files' = [files EXCEPT ![f] = "partial"]
    /\ UNCHANGED <<env, boot, cache, docLast>>
    /\ UNCHANGED itemVars

WriteClose(f) ==
    /\ files[f] = "partial"
    /\ files' = [files EXCEPT ![f] = "complete"]
    /\ UNCHANGED <<env, boot, cache, docLast>>
    /\ UNCHANGED itemVars

Files == {"json", "yaml"}

DocStart == ItemInit /\ DocInit

DocNext ==
    \/ StartWriteJson
    \/ StartWriteYaml
    \/ ImportEnviroment
    \/ Listen
    \/ CacheDocuments
    \/ \E f \in Files : WriteOpen(f)
    \/ \E f \in Files : WriteClose(f)
    \/ Openapi
    \/ OpenapiJson
    \/ OpenapiYaml
    \/ DevAlias
    \/ DeliverDoc

DocSpec == DocStart /\ [][DocNext]_vars

-----------------------------------------------------------------------------
(* Properties of the item routes *)

ItemEndpoints ==
    {"GET /", "GET /:id", "POST /", "DELETE /:id", "GET /best-seller",
     "GET /worst-seller"}

\* the completed request passed the schema of its route
Validated(r) ==
    /\ r.ep \in {"GET /:id", "DELETE /:id"} => ValidParams(r.id)
    /\ r.ep = "POST /" => ValidBody(r.body)

Reply == last.sent[1]

\* the completed request named a row that existed when the handler looked it
\* up and that a caller of another restaurant created
ForeignLookup ==
    /\ last.ep \in {"GET /:id", "DELETE /:id"}
    /\ Validated(last)
    /\ last.obs.gate = "passed"
    /\ last.obs.exists
    /\ last.obs.owner # CallerRestaurant(last.cred)

\* C1: GET /:id and DELETE /:id on an item that another restaurant owns end
\* with the 403 access error; the item is not sent, the confirmation is not
\* sent, and the item is not deleted.
C1_ForeignItemForbidden ==
    ForeignLookup =>
        /\ last.sent = <<[status |-> 403, payload |-> Text(AccessDenied)]>>
        /\ last.sends = <<"error">>
        /\ last.calls = <<"get">>
        /\ last.id \in DOMAIN items

C1_Witness ==
    /\ ForeignLookup
    /\ last.ep = "DELETE /:id"
    /\ Reply.status = 403

\* C2 as stated: whatever else the request holds, an authenticated endpoint
\* answers 401 without a valid token and 403 with an expired one.
C2_Original ==
    last.ep \in ItemEndpoints =>
        /\ last.cred.token \in {"malformed", "missing"} => Reply.status = 401
        /\ last.cred.token = "expired" => Reply.status = 403

\* C2 amended: a request that passes its route's schema is answered 403 with
\* the expiration error when its token is expired, 401 with the verification
\* error when the token is missing or malformed, and neither of these two
\* gate replies when the token is valid.
C2_TokenFailureStatus ==
    (last.ep \in ItemEndpoints /\ Validated(last)) =>
        /\ last.cred.token = "expired" =>
                last.sent = <<[status |-> 403, payload |-> Text(ExpiredCode)]>>
        /\ last.cred.token \in {"malformed", "missing"} =>
                /\ Reply.status = 401
                /\ Reply.payload = Text(jwtVerify(last.cred))
        /\ last.cred.token = "valid" => "gate" \notin Range(last.sends)

C2_Witness ==
    /\ last.ep = "GET /"
    /\ last.cred.token = "expired"
    /\ last.sent = <<[status |-> 403, payload |-> Text(ExpiredCode)]>>

\* C3 as stated: a user without a restaurant gets 403 from every item
\* endpoint, whatever else the request holds.
C3_Original ==
    (last.ep \in ItemEndpoints /\ last.cred.token = "valid"
        /\ UserRestaurant(last.cred.uid) = NoRestaurant) => Reply.status = 403

\* C3 amended: a request that passes its route's schema and carries the
\* valid token of a user without a restaurant is answered 403 by each of the
\* six item endpoints, and no persistence operation runs for it.
C3_NoRestaurantForbidden ==
    (last.ep \in ItemEndpoints /\ Validated(last) /\ last.cred.token = "valid"
        /\ UserRestaurant(last.cred.uid) = NoRestaurant) =>
            /\ Reply.status = 403
            /\ last.calls = <<>>

C3_Witness ==
    /\ last.ep = "GET /best-seller"
    /\ last.cred.token = "valid"
    /\ UserRestaurant(last.cred.uid) = NoRestaurant
    /\ Reply.status = 403

\* every handler suspended before itemControl.del passed the gate and found
\* a row of the caller's own restaurant
DelOnlyOwn ==
    \A r \in BagToSet(inflight) :
        r.pc = "del" =>
            /\ r.obs.gate = "passed"
            /\ r.obs.exists
            /\ r.obs.owner = CallerRestaurant(r.cred)
            /\ CallerRestaurant(r.cred) # NoRestaurant

\* a completed DELETE /:id called itemControl.del only for a row of the
\* caller's restaurant, and not at all when it ended in 401 or 403
DelCalledByOwner ==
    last.ep = "DELETE /:id" =>
        /\ "del" \in Range(last.calls) =>
                /\ last.obs.owner = CallerRestaurant(last.cred)
                /\ CallerRestaurant(last.cred) # NoRestaurant
        /\ Reply.status \in {401, 403} => "del" \notin Range(last.calls)

\* a step that removes a row is the itemControl.del of a DELETE /:id by a
\* caller of the restaurant that created the row
RemovedByOwnerDelete ==
    \A i \in DOMAIN items :
        i \notin DOMAIN items' =>
            /\ last'.ep = "DELETE /:id"
            /\ last'.id = i
            /\ last'.sent = <<[status |-> 200, payload |-> Text(Confirmation)]>>
            /\ items[i].restaurantId = CallerRestaurant(last'.cred)
            /\ hist[i].by = CallerRestaurant(last'.cred)

\* a step that completes a DELETE /:id with 401 or 403 changes no row
RefusedDeleteChangesNothing ==
    (last' # last /\ last'.ep = "DELETE /:id" /\ last'.sent[1].status \in {401, 403})
        => items' = items

\* C4: a row leaves the store only through the itemControl.del of a
\* DELETE /:id whose caller belongs to the row's restaurant; a DELETE /:id
\* that ends in 401 or 403 leaves the store unchanged; itemControl.del is
\* never called for a row of another restaurant.
C4_DeleteOnlyByOwner ==
    /\ [](DelOnlyOwn /\ DelCalledByOwner)
    /\ [][RemovedByOwnerDelete /\ RefusedDeleteChangesNothing]_vars

C4_Witness ==
    /\ last.ep = "DELETE /:id"
    /\ last.calls = <<"get", "del">>
    /\ Reply.status = 200
    /\ last.id \notin DOMAIN items
    /\ \E i \in DOMAIN items : items[i].restaurantId # CallerRestaurant(last.cred)

\* C5: POST / with a valid body by a caller with a restaurant stores a row
\* of the caller's restaurant with the posted name, price and description
\* and replies with that row as fetched back by its new id (unless the row
\* was deleted before the fetch); GET /:id by a caller of that restaurant
\* then returns the posted name, price and description (absent when none
\* was posted) under that id.
C5_CreateThenGetRoundTrip ==
    /\ (last.ep = "POST /" /\ Validated(last) /\ last.obs.gate = "passed") =>
            IF last.obs.deletedBefore
            THEN last.sent = <<[status |-> NotFound.status,
                                payload |-> Text(NotFound.message)]>>
            ELSE /\ Reply.status = 200
                 /\ Reply.payload.kind = "row"
                 /\ Reply.payload.row =
                        [id |-> last.id, name |-> last.body.name,
                         price |-> last.body.price,
                         description |-> last.body.description,
                         restaurantId |-> CallerRestaurant(last.cred)]
                 /\ last.calls = <<"create", "get">>
    /\ (last.ep = "GET /:id" /\ Validated(last) /\ last.obs.gate = "passed"
            /\ last.obs.exists /\ last.obs.owner = CallerRestaurant(last.cred)) =>
            /\ Reply.status = 200
            /\ Reply.payload =
                    [kind |-> "item",
                     item |-> [id |-> last.id, name |-> hist[last.id].body.name,
                               price |-> hist[last.id].body.price,
                               description |-> hist[last.id].body.description]]

C5_Witness ==
    /\ last.ep = "GET /:id"
    /\ Reply.status = 200
    /\ Reply.payload.kind = "item"
    /\ Reply.payload.item.name = "Soup"
    /\ Reply.payload.item.price = 500
    /\ Reply.payload.item.description = NoDesc
    /\ hist[last.id].body.name = "Soup"

\* C6: a DELETE /:id by a caller of the item's restaurant, issued after a
\* DELETE /:id of the same id has succeeded, fails with the not-found error
\* and does not send the confirmation.
C6_SecondDeleteNotFound ==
    (last.ep = "DELETE /:id" /\ Validated(last) /\ last.obs.gate = "passed"
        /\ last.obs.deletedBefore) =>
            /\ last.sent = <<[status |-> NotFound.status,
                              payload |-> Text(NotFound.message)]>>
            /\ "handler" \notin Range(last.sends)
            /\ "del" \notin Range(last.calls)

C6_Witness ==
    /\ last.ep = "DELETE /:id"
    /\ last.obs.deletedBefore
    /\ last.obs.owner = CallerRestaurant(last.cred)
    /\ Reply.payload = Text(NotFound.message)

\* C8: GET / by a caller of restaurant R replies with exactly the items
\* that callers of R created and that have not been deleted since.
C8_MenuIsOwnLiveItems ==
    (last.ep = "GET /" /\ last.obs.gate = "passed") =>
        /\ Reply.status = 200
        /\ Reply.payload.kind = "menu"
        /\ Reply.payload.items = last.obs.live
        /\ last.obs.live = LiveOf(CallerRestaurant(last.cred))

C8_Witness ==
    /\ last.ep = "GET /"
    /\ Reply.status = 200
    /\ Reply.payload.items # {}
    /\ \E i \in DOMAIN items : items[i].restaurantId # CallerRestaurant(last.cred)

\* C10: when the gate of an item request fails, the reply is the gate's 401
\* or 403, no persistence operation is invoked for the request and the
\* handler sends nothing; no handler waits on the store without having
\* passed the gate.
C10_GateFailureEndsRequest ==
    /\ (last.ep \in ItemEndpoints /\ Validated(last) /\ last.obs.gate = "failed") =>
            /\ last.calls = <<>>
            /\ "handler" \notin Range(last.sends)
            /\ Len(last.sends) = 1
            /\ Len(last.sent) = 1
            /\ Reply.status \in {401, 403}
    /\ \A r \in BagToSet(inflight) : r.obs.gate = "passed"

C10_Witness ==
    /\ last.ep = "DELETE /:id"
    /\ Validated(last)
    /\ last.id \in DOMAIN items
    /\ last.cred.token = "missing"
    /\ last.calls = <<>>
    /\ last.sends = <<"gate">>
    /\ Reply.status = 401

-----------------------------------------------------------------------------
(* Properties of the document endpoints *)

YamlTypes == {MT("application", "yaml"), MT("text", "yaml"), MT("text", "yml")}

\* the header names only YAML types, each with a positive quality
OnlyYaml(accept) ==
    /\ accept # <<>>
    /\ \A k \in 1..Len(accept) : accept[k].range \in YamlTypes /\ accept[k].q > 0

\* the header names only application/json, with a positive quality
OnlyJson(accept) ==
    /\ accept # <<>>
    /\ \A k \in 1..Len(accept) :
            accept[k].range = MT("application", "json") /\ accept[k].q > 0

\* no range of the header matches a supported type with a positive quality
NothingSupported(accept) ==
    /\ accept # <<>>
    /\ \A k \in 1..Len(accept) :
            accept[k].q = 0 \/ accept[k].range = MT("text", "html")

TypeNames == {Name(m) : m \in Ranges}

\* C7: GET /openapi replies with the YAML document when the Accept header
\* names YAML types only, and with the JSON document when it names
\* application/json only, when there is no Accept header and when nothing
\* the header accepts is supported; of a list of types the first decides;
\* the reply is the one GET /openapi/json (JSON selected) or
\* GET /openapi/yaml (YAML selected) gives.
C7_NegotiatedDocument ==
    /\ docLast.ep = "GET /openapi" =>
            /\ OnlyYaml(docLast.accept) => docLast.reply.doc = "yaml"
            /\ (docLast.accept = <<>> \/ OnlyJson(docLast.accept)
                    \/ NothingSupported(docLast.accept)) => docLast.reply.doc = "json"
            /\ docLast.reply.doc \in Files
            /\ docLast.reply = docLast.pinned[docLast.reply.doc]
    /\ \A a \in TypeNames, b \in TypeNames :
            SelectType([kind |-> "array", values |-> <<a, b>>]) = a

C7_Witness ==
    /\ docLast.ep = "GET /openapi"
    /\ docLast.accept = <<[range |-> MT("application", "yaml"), q |-> 10]>>
    /\ docLast.reply.status = 200
    /\ docLast.reply.doc = "yaml"
    /\ docLast.reply.content = "complete"

\* C9: in production every reply of GET /openapi, GET /openapi/json and
\* GET /openapi/yaml is the complete document that start-up has written.
C9_ServedAfterWrite ==
    (docLast.ep \in {"GET /openapi", "GET /openapi/json", "GET /openapi/yaml"}
        /\ docLast.env = "PROD") =>
            /\ docLast.reply.status = 200
            /\ docLast.reply.content = "complete"
====
